---- MODULE Spec2Model ----
(***************************************************************************)
(* RuntimeFilterBank / RuntimeFilter (be/src/runtime/runtime-filter.cc,    *)
(* carried in src/be/src/util/bit-util-test.cc from line 172 on).          *)
(*                                                                         *)
(* One bank, its two registries, its object pool, the query memory tracker *)
(* and the threads that call into the bank.  A critical section taken      *)
(* under runtime_filter_lock_ is one atomic action; UpdateFilterFromLocal  *)
(* takes the lock twice and then works without it, so it is three steps.   *)
(* DCHECKs abort the process in a build that has them on and are compiled  *)
(* out otherwise; dcheck_on is the build flavour.                          *)
(*                                                                         *)
(* Spec      the bank under every interleaving of its operations           *)
(* SpecWait  a consumer in RuntimeFilter::WaitForArrival, with the clock   *)
(* SpecCtor  the constructor's clamp over the sizes a query can ask for    *)
(* SpecKudu  KuduTable.load (fe/.../catalog/KuduTable.java) called again   *)
(*           and again on one table object with good and bad properties    *)
(***************************************************************************)
EXTENDS Integers, Sequences, FiniteSets, TLC

\* ---------------------------------------------------------------- bounds
\* objects the pool takes beyond one RuntimeFilter per registry entry
MaxPool == 1
MaxQueue == 1
MemLimit == 8192
MaxTime == 80   \* milliseconds of the monotonic clock a run covers
MaxColumns == 4 \* columns one KuduTable object is followed up to

\* ------------------------------------------------------ program constants
NULL == 0
ALWAYS_TRUE_FILTER == -1
MIN_BLOOM_FILTER_SIZE == 4096
MAX_BLOOM_FILTER_SIZE == 16777216
SLEEP_PERIOD_MS == 20

\* the filter ids of the query plan; each produced filter has one producer
\* operator, which runs on one thread
FilterIds == {1}
\* runtime_bloom_filter_size query option values tried at construction
RequestedSizes == {0}
\* log_heap_space of the wire filters the coordinator broadcasts
WireLogs == {12, 13}
FilterModes == {"OFF", "LOCAL", "GLOBAL"}
\* the timeout_ms values consumers wait with
Timeouts == {-10, 0, 30, 40}
\* by how many milliseconds the monotonic clock is seen to advance in one step
ClockSteps == {10}
WireFilters == [always_true : BOOLEAN, log_heap_space : WireLogs]

\* ------------------------------------------------------------- helpers
RECURSIVE Pow2(_)
Pow2(n) == IF n <= 0 THEN 1 ELSE 2 * Pow2(n - 1)

RECURSIVE Log2Floor64(_)
Log2Floor64(n) == IF n <= 0 THEN -1 ELSE IF n = 1 THEN 0 ELSE 1 + Log2Floor64(n \div 2)

\* gutil Bits::Log2Ceiling64: the floor for zero or a power of two, else floor + 1
Log2Ceiling64(n) ==
  LET floor == Log2Floor64(n)
  IN IF n <= 0 \/ n = Pow2(floor) THEN floor ELSE floor + 1

Max(a, b) == IF a >= b THEN a ELSE b
Min(a, b) == IF a <= b THEN a ELSE b

\* a constructor that takes the log of the size as asked for
LogFilterSize_unclamped(size) == Log2Ceiling64(size)

\* RuntimeFilterBank constructor, the clamp and the log of the filter size
LogFilterSize(runtime_bloom_filter_size) ==
  LET lo == Max(runtime_bloom_filter_size, MIN_BLOOM_FILTER_SIZE)
      hi == Min(lo, MAX_BLOOM_FILTER_SIZE)
  IN Log2Ceiling64(hi)

\* BloomFilter::GetExpectedHeapSpaceUsed(log_heap_space), in bytes
GetExpectedHeapSpaceUsed(log_heap_space) == Pow2(log_heap_space)

\* BloomFilter::GetHeapSpaceUsed() of a constructed filter, in bytes
GetHeapSpaceUsed(bloom) == Pow2(bloom.log_heap_space)

\* new BloomFilter(log) / new BloomFilter(thrift_filter), as owned by obj_pool_
NewBloomFilter(log_heap_space, scratch) ==
  [log_heap_space |-> log_heap_space, live |-> TRUE, scratch |-> scratch]

\* new RuntimeFilter(filter_desc): no bloom filter installed, registration_time_
\* is the monotonic clock at construction
NewRuntimeFilter(filter_id, has_local_target, registration_time) ==
  [filter_id |-> filter_id, has_local_target |-> has_local_target,
   bloom_filter |-> NULL, registration_time_ |-> registration_time, live |-> TRUE]

\* DCHECK(cond): passes when cond holds or the build compiles DCHECKs out
DCHECK(on, cond) == cond \/ ~on

\* ---- fe catalog: KuduTable ----
\* a Java reference is null or holds one object; a java.lang.String is the
\* sequence of its characters
null == <<>>
Ref(x) == <<x>>
Deref(r) == r[1]

\* a KuduTable as its constructor leaves it: the metastore table handed to
\* Table's constructor, no Kudu property read yet, no column
NewKuduTable(msTable) ==
  [ msTable_ |-> msTable,
    kuduTableName_ |-> null,
    kuduMasters_ |-> null,
    kuduKeyColumnNames_ |-> null,
    columns |-> <<>>,
    numClusteringCols_ |-> 0 ]

\* no load call made yet
NoLoad == [msTbl |-> NULL, thrown |-> "none", line |-> 0]

VARIABLES
  dcheck_on,            \* build flavour: TRUE when DCHECKs are compiled in
  runtime_bloom_filter_size,  \* the query option the constructor reads
  runtime_filter_mode,  \* state_->query_options().runtime_filter_mode
  log_filter_size_,
  filter_descs,         \* the plan's TRuntimeFilterDesc per filter id
  closed_,
  produced_filters_,    \* filter id -> RuntimeFilter* (NULL: no entry)
  consumed_filters_,
  filters,              \* every RuntimeFilter obj_pool_ ever held, by address
  blooms,               \* every BloomFilter obj_pool_ ever held, by address
  memory_allocated_,    \* the BloomFilterBytes counter
  consumption,          \* query_mem_tracker: bytes this bank holds
  calls,                \* per producer: its UpdateFilterFromLocal call in flight
  rpc_pool,             \* ExecEnv::rpc_pool(): queued SendFilterToCoordinator tasks
  aborted,              \* the process died (failed DCHECK, or a wild access)
  now,                  \* MonotonicMillis()
  wait,                 \* the consumer thread's WaitForArrival call
  kuduTable,            \* one KuduTable object of the catalog: its fields
  lastLoad,             \* the KuduTable.load call just made: input, outcome
  last                  \* the step just taken: operation, inputs, outcome

vars == <<dcheck_on, runtime_bloom_filter_size, runtime_filter_mode,
          log_filter_size_, filter_descs, closed_,
          produced_filters_, consumed_filters_, filters, blooms,
          memory_allocated_, consumption, calls, rpc_pool, aborted, now, wait,
          kuduTable, lastLoad, last>>

\* the catalog's table object, which no operation of the bank touches
catalog == <<kuduTable, lastLoad>>

config == <<dcheck_on, runtime_bloom_filter_size, runtime_filter_mode,
            log_filter_size_, filter_descs>>
\* the clock and the waiting consumer, which no operation of the bank touches
waiting == <<now, wait>>
registries == <<produced_filters_, consumed_filters_>>
memory == <<memory_allocated_, consumption>>

\* the consumer thread is not in WaitForArrival
NoWait == [pc |-> "idle", filter |-> NULL, timeout_ms |-> 0, call_time |-> 0,
           sleeps |-> 0, wake |-> 0, ret |-> FALSE]

\* a call's record: where it stands, its arguments, the RuntimeFilter its first
\* critical section installed into (produced) and the one its second found (filter)
Idle == [pc |-> "idle", filter_id |-> 0, bloom_filter |-> NULL, produced |-> NULL,
         filter |-> NULL]

\* runtime_filter_lock_.  A critical section is one step, so between steps
\* the lock can only be held by a thread that stands inside a lock_guard
\* scope at a position where it blocks: a producer between the steps of
\* UpdateFilterFromLocal, or the consumer asleep in WaitForArrival.
\* a bank whose second lock scope in UpdateFilterFromLocal runs to the end of
\* the function
UpdateHoldsLock_wide(pc) == pc \in {"install", "send"}

\* lines 268 and 281 close the two lock scopes of UpdateFilterFromLocal: at
\* "lookup", "install" and "send" the producer holds no lock
UpdateHoldsLock(pc) == FALSE

\* a WaitForArrival that polls under the bank's lock
WaitHoldsLock_polling == TRUE

\* lines 351-358 take no lock
WaitHoldsLock == FALSE

LockHeld ==
  \/ wait.pc = "sleep" /\ WaitHoldsLock
  \/ \E i \in FilterIds : UpdateHoldsLock(calls[i].pc)

\* lock_guard<mutex> l(runtime_filter_lock_) can be entered
LockFree == ~LockHeld

\* the record kept of a step
\*   op           the operation (or the step of UpdateFilterFromLocal)
\*   id           the filter id it was given (0: none)
\*   always_true  the filter it was given is the always-true one
\*   closed       closed_ when it ran
\*   registered   the registry lookup it made found an entry
\*   arrived      the RuntimeFilter it looked up already had a filter
\*   try_consume  "none": not called, "ok", "rejected"
\*   ret          what it returned (a pointer, or for a send task its status)
\*   uaf          it touched an object Close() had freed
Ev(op, id, always_true, closed, registered, arrived, try_consume, ret, uaf) ==
  [op |-> op, id |-> id, always_true |-> always_true, closed |-> closed,
   registered |-> registered, arrived |-> arrived,
   try_consume |-> try_consume, ret |-> ret, uaf |-> uaf]

\* HasBloomFilter() of the RuntimeFilter at address o
HasBloomFilter(o) == filters[o].bloom_filter # NULL

\* obj_pool_.Clear(): every object of the pool is freed
PoolClear(objs) == [i \in DOMAIN objs |-> [objs[i] EXCEPT !.live = FALSE]]

\* how many objects obj_pool_ has been given
PoolSize == Len(filters) + Len(blooms)

\* how many RuntimeFilters the registries reference
RECURSIVE Registered(_)
Registered(ids) ==
  IF ids = {} THEN 0
  ELSE LET i == CHOOSE x \in ids : TRUE
       IN (IF produced_filters_[i] # NULL THEN 1 ELSE 0)
          + (IF consumed_filters_[i] # NULL THEN 1 ELSE 0)
          + Registered(ids \ {i})

\* the objects of the pool beyond the registered RuntimeFilters: scratch and
\* published BloomFilters, RuntimeFilters of a repeated registration
PoolExtra == PoolSize - Registered(FilterIds)

RECURSIVE HeapBytes(_, _)
HeapBytes(objs, n) ==
  IF n = 0 THEN 0
  ELSE HeapBytes(objs, n - 1) + (IF objs[n].live THEN GetHeapSpaceUsed(objs[n]) ELSE 0)

\* total heap size of the BloomFilters the pool owns
PoolHeapBytes == HeapBytes(blooms, Len(blooms))

\* MemTracker::TryConsume(bytes): room is FALSE when the rest of the query
\* has used up the budget
TryConsume(bytes, room) == room /\ consumption + bytes <= MemLimit

\* MemTracker::Release(bytes)
Release(bytes) == consumption - bytes

Init ==
  /\ dcheck_on \in BOOLEAN
  /\ runtime_filter_mode \in FilterModes
  /\ runtime_bloom_filter_size \in RequestedSizes
  /\ log_filter_size_ = LogFilterSize(runtime_bloom_filter_size)
  /\ filter_descs \in [FilterIds -> [has_local_target : BOOLEAN]]
  /\ closed_ = FALSE
  /\ produced_filters_ = [i \in FilterIds |-> NULL]
  /\ consumed_filters_ = [i \in FilterIds |-> NULL]
  /\ filters = <<>>
  /\ blooms = <<>>
  /\ memory_allocated_ = 0
  /\ consumption = 0
  /\ calls = [i \in FilterIds |-> Idle]
  /\ rpc_pool = <<>>
  /\ aborted = FALSE
  /\ now = 0
  /\ wait = NoWait
  /\ kuduTable = NewKuduTable(NULL)
  /\ lastLoad = NoLoad
  /\ last = Ev("Init", 0, FALSE, FALSE, FALSE, FALSE, "none", 0, FALSE)

\* the process lives and the bank's share of the tracker is not negative: a
\* run is followed no further once the bank has released more than it held
Running == ~aborted /\ consumption >= 0

\* the process dies in this step; ev says where
Abort(ev) ==
  /\ aborted' = TRUE
  /\ last' = ev

\* ------------------------------------------------------- RegisterFilter
RegisterFilter(id, is_producer) ==
  LET reg == IF is_producer THEN produced_filters_ ELSE consumed_filters_
      ret == Len(filters) + 1
      ev == Ev(IF is_producer THEN "RegisterProducer" ELSE "RegisterConsumer",
               id, FALSE, closed_, reg[id] # NULL, FALSE, "none", ret, FALSE)
  IN
  /\ Running
  /\ LockFree
  /\ reg[id] = NULL \/ PoolExtra < MaxPool
  /\ filters' = Append(filters, NewRuntimeFilter(id, filter_descs[id].has_local_target, now))
  /\ IF ~DCHECK(dcheck_on, reg[id] = NULL)
     THEN /\ Abort(ev)
          /\ UNCHANGED registries
     ELSE /\ IF is_producer
             THEN /\ produced_filters_' = [produced_filters_ EXCEPT ![id] = ret]
                  /\ UNCHANGED consumed_filters_
             ELSE /\ consumed_filters_' = [consumed_filters_ EXCEPT ![id] = ret]
                  /\ UNCHANGED produced_filters_
          /\ last' = ev
          /\ UNCHANGED aborted
  /\ UNCHANGED <<config, waiting, catalog, closed_, blooms, memory, calls, rpc_pool>>

\* -------------------------------------------- AllocateScratchBloomFilter
\* a bank that reserves for the next smaller filter size
AllocateRequiredSpace_smaller == GetExpectedHeapSpaceUsed(log_filter_size_ - 1)

\* line 331: the bytes reserved for a scratch filter
AllocateRequiredSpace == GetExpectedHeapSpaceUsed(log_filter_size_)

AllocateScratchBloomFilter ==
  LET required_space == AllocateRequiredSpace
      ev(try, ret) == Ev("Allocate", 0, FALSE, closed_, FALSE, FALSE, try, ret, FALSE)
  IN
  /\ Running
  /\ LockFree
  /\ \/ /\ closed_
        /\ last' = ev("none", NULL)
        /\ UNCHANGED <<blooms, memory>>
     \/ /\ ~closed_
        /\ \E room \in BOOLEAN :
             IF ~TryConsume(required_space, room)
             THEN /\ last' = ev("rejected", NULL)
                  /\ UNCHANGED <<blooms, memory>>
             ELSE /\ PoolExtra < MaxPool
                  /\ consumption' = consumption + required_space
                  /\ blooms' = Append(blooms, NewBloomFilter(log_filter_size_, TRUE))
                  /\ memory_allocated_' =
                       memory_allocated_ + GetHeapSpaceUsed(blooms'[Len(blooms')])
                  /\ last' = ev("ok", Len(blooms'))
  /\ UNCHANGED <<config, waiting, catalog, closed_, registries, filters, calls, rpc_pool, aborted>>

\* ---------------------------------------------------------------- Close
\* a Close() that adds up the bytes to release after it has cleared the pool
CloseReleaseBytes_stale == HeapBytes(PoolClear(blooms), Len(blooms))

\* line 348: the bytes Close() releases
CloseReleaseBytes == memory_allocated_

Close ==
  /\ Running
  /\ LockFree
  /\ closed_' = TRUE
  /\ filters' = PoolClear(filters)
  /\ blooms' = PoolClear(blooms)
  /\ consumption' = Release(CloseReleaseBytes)
  /\ last' = Ev("Close", 0, FALSE, closed_, FALSE, FALSE, "none", 0, FALSE)
  /\ UNCHANGED <<config, waiting, catalog, registries, memory_allocated_, calls, rpc_pool, aborted>>

\* ------------------------------------------------ RuntimeFilter install
\* RuntimeFilter::SetBloomFilter(bloom_filter): the filters with o's reference set
SetBloomFilter(o, bloom_filter) == [filters EXCEPT ![o].bloom_filter = bloom_filter]

\* it->second->SetBloomFilter(bf) / filter->SetBloomFilter(bf) on the pointer o
\* a lookup gave.  o = NULL is the end() iterator (only a build without
\* DCHECKs gets here with it): the access is wild, the process dies or the
\* write lands outside the bank.  A second install is a DCHECK failure.  A
\* freed RuntimeFilter may fault or take the write.
Install(o, bf, ev) ==
  IF o = NULL
  THEN \/ /\ Abort(ev)
          /\ UNCHANGED filters
       \/ /\ last' = ev
          /\ UNCHANGED <<filters, aborted>>
  ELSE IF ~DCHECK(dcheck_on, ~HasBloomFilter(o))
  THEN /\ Abort(ev)
       /\ UNCHANGED filters
  ELSE \/ /\ ~filters[o].live
          /\ Abort(ev)
          /\ UNCHANGED filters
       \/ /\ filters' = SetBloomFilter(o, bf)
          /\ last' = ev
          /\ UNCHANGED aborted

\* -------------------------------------------------- PublishGlobalFilter
\* a PublishGlobalFilter that does not look at closed_
PublishIsNoop_never == FALSE

\* line 300: if (closed_) return;
PublishIsNoop == closed_

\* a rejected publish that installs nothing
PublishRejectedFilter_none == NULL

\* line 314: the filter installed when the memory tracker rejects the reservation
PublishRejectedFilter == ALWAYS_TRUE_FILTER

\* an always-true publish that reserves memory like any other
PublishSkipsReservation_never(thrift_filter) == FALSE

\* line 304: whether the always-true wire form skips the reservation
PublishSkipsReservation(thrift_filter) == thrift_filter.always_true

PublishGlobalFilter(id, thrift_filter) ==
  LET o == consumed_filters_[id]
      registered == o # NULL
      arrived == registered /\ HasBloomFilter(o)
      required_space == GetExpectedHeapSpaceUsed(thrift_filter.log_heap_space)
      ev(try) == Ev("Publish", id, thrift_filter.always_true, closed_, registered, arrived,
                    try, 0, FALSE)
  IN
  /\ Running
  /\ LockFree
  /\ IF PublishIsNoop
     THEN /\ last' = ev("none")
          /\ UNCHANGED <<filters, blooms, memory, aborted>>
     ELSE IF ~DCHECK(dcheck_on, registered)
     THEN /\ Abort(ev("none"))
          /\ UNCHANGED <<filters, blooms, memory>>
     ELSE IF PublishSkipsReservation(thrift_filter)
     THEN /\ Install(o, ALWAYS_TRUE_FILTER, ev("none"))
          /\ UNCHANGED <<blooms, memory>>
     ELSE \E room \in BOOLEAN :
            IF ~TryConsume(required_space, room)
            THEN /\ Install(o, PublishRejectedFilter, ev("rejected"))
                 /\ UNCHANGED <<blooms, memory>>
            ELSE /\ PoolExtra < MaxPool
                 /\ consumption' = consumption + required_space
                 /\ blooms' = Append(blooms,
                                NewBloomFilter(thrift_filter.log_heap_space, FALSE))
                 /\ memory_allocated_' =
                      memory_allocated_ + GetHeapSpaceUsed(blooms'[Len(blooms')])
                 /\ Install(o, Len(blooms'), ev("ok"))
  /\ UNCHANGED <<config, waiting, catalog, closed_, registries, calls, rpc_pool>>

\* ------------------------------------------------ UpdateFilterFromLocal
\* the BloomFilter* a producer can hand in: a scratch filter it got from
\* AllocateScratchBloomFilter, or the always-true filter
ProducerFilters ==
  {ALWAYS_TRUE_FILTER} \cup {b \in 1..Len(blooms) : blooms[b].scratch}

\* BloomFilter::ToThrift(bloom_filter, &params.bloom_filter)
ToThrift(bf) ==
  IF bf = ALWAYS_TRUE_FILTER
  THEN [always_true |-> TRUE, log_heap_space |-> 0]
  ELSE [always_true |-> FALSE, log_heap_space |-> blooms[bf].log_heap_space]

\* a bank that ships every filter to the coordinator in GLOBAL mode, local
\* target or not
UpdateNextPc_ship(has_local_target) ==
  IF runtime_filter_mode = "GLOBAL" THEN "send"
  ELSE IF has_local_target THEN "lookup"
  ELSE "idle"

\* a bank that ships a filter without local target whatever the filter mode
UpdateNextPc_anymode(has_local_target) ==
  IF has_local_target THEN "lookup" ELSE "send"

\* where the call goes after the first critical section
UpdateNextPc(has_local_target) ==
  IF has_local_target THEN "lookup"
  ELSE IF runtime_filter_mode = "GLOBAL" THEN "send"
  ELSE "idle"

\* lines 257-268: the mode DCHECK, then under the lock the produced lookup,
\* the install into the produced filter and the read of has_local_target
UpdateFilterFromLocal(id, bf) ==
  LET o == produced_filters_[id]
      registered == o # NULL
      arrived == registered /\ HasBloomFilter(o)
      uaf == registered /\ ~filters[o].live
      ev == Ev("UpdateInstall", id, bf = ALWAYS_TRUE_FILTER, closed_, registered,
               arrived, "none", 0, uaf)
  IN
  /\ Running
  /\ LockFree
  /\ calls[id].pc = "idle"
  /\ IF ~DCHECK(dcheck_on, runtime_filter_mode # "OFF")
        \/ ~DCHECK(dcheck_on, registered)
     THEN /\ Abort(ev)
          /\ UNCHANGED <<filters, calls>>
     ELSE /\ Install(o, bf, ev)
          /\ IF aborted'
             THEN UNCHANGED calls
             ELSE \E hlt \in BOOLEAN :
                    /\ registered => hlt = filters[o].has_local_target
                    /\ calls' = [calls EXCEPT ![id] =
                         IF UpdateNextPc(hlt) = "idle" THEN Idle
                         ELSE [pc |-> UpdateNextPc(hlt), filter_id |-> id,
                               bloom_filter |-> bf, produced |-> o,
                               filter |-> NULL]]
  /\ UNCHANGED <<config, waiting, catalog, closed_, registries, blooms, memory, rpc_pool>>

\* lines 274-281: under the lock again, the consumed lookup and the DCHECK
\* that the consumer's filter has not shown up yet
UpdateLookupConsumer(id) ==
  LET o == consumed_filters_[id]
      registered == o # NULL
      arrived == registered /\ HasBloomFilter(o)
      uaf == registered /\ ~filters[o].live
      ev == Ev("UpdateLookup", id, calls[id].bloom_filter = ALWAYS_TRUE_FILTER,
               closed_, registered, arrived, "none", 0, uaf)
  IN
  /\ Running
  /\ LockFree
  /\ calls[id].pc = "lookup"
  /\ IF ~registered
     THEN /\ calls' = [calls EXCEPT ![id] = Idle]
          /\ last' = ev
          /\ UNCHANGED aborted
     ELSE IF ~DCHECK(dcheck_on, ~HasBloomFilter(o))
     THEN /\ Abort(ev)
          /\ UNCHANGED calls
     ELSE \/ /\ uaf
             /\ Abort(ev)
             /\ UNCHANGED calls
          \/ /\ calls' = [calls EXCEPT ![id].pc = "install", ![id].filter = o]
             /\ last' = ev
             /\ UNCHANGED aborted
  /\ UNCHANGED <<config, waiting, catalog, closed_, registries, filters, blooms, memory, rpc_pool>>

\* lines 282-285: without the lock, the install into the consumer's filter
UpdateInstallLocal(id) ==
  LET o == calls[id].filter
      ev == Ev("UpdateLocalInstall", id, calls[id].bloom_filter = ALWAYS_TRUE_FILTER,
               closed_, TRUE, HasBloomFilter(o), "none", 0, ~filters[o].live)
  IN
  /\ Running
  /\ calls[id].pc = "install"
  /\ Install(o, calls[id].bloom_filter, ev)
  /\ IF aborted' THEN UNCHANGED calls ELSE calls' = [calls EXCEPT ![id] = Idle]
  /\ UNCHANGED <<config, waiting, catalog, closed_, registries, blooms, memory, rpc_pool>>

\* lines 286-294: without the lock, serialize the filter and offer the send
\* task to the rpc pool (Offer blocks while the pool's queue is full)
UpdateSend(id) ==
  LET bf == calls[id].bloom_filter
      uaf == bf # ALWAYS_TRUE_FILTER /\ ~blooms[bf].live
      ev == Ev("UpdateSend", id, bf = ALWAYS_TRUE_FILTER, closed_, TRUE, FALSE,
               "none", 0, uaf)
  IN
  /\ Running
  /\ calls[id].pc = "send"
  /\ Len(rpc_pool) < MaxQueue
  /\ \/ /\ uaf
        /\ Abort(ev)
        /\ UNCHANGED <<calls, rpc_pool>>
     \/ /\ rpc_pool' = Append(rpc_pool,
                         [filter_id |-> id, bloom_filter |-> ToThrift(bf)])
        /\ calls' = [calls EXCEPT ![id] = Idle]
        /\ last' = ev
        /\ UNCHANGED aborted
  /\ UNCHANGED <<config, waiting, catalog, closed_, registries, filters, blooms, memory>>

\* ---------------------------------------------- SendFilterToCoordinator
\* runs on an rpc pool thread: open the connection, one UpdateFilter RPC if it
\* opened, the status dropped either way
\* 0: the connection did not open, 1: the RPC failed, 2: delivered
SendStatus(conn_ok, rpc_ok) == IF ~conn_ok THEN 0 ELSE IF ~rpc_ok THEN 1 ELSE 2

\* a send task that stays at the head of the rpc pool until it is delivered
SendFilterToCoordinator_retry(conn_ok, rpc_ok) ==
  /\ Running
  /\ rpc_pool # <<>>
  /\ rpc_pool' = IF SendStatus(conn_ok, rpc_ok) = 2 THEN Tail(rpc_pool) ELSE rpc_pool
  /\ last' = Ev("Send", Head(rpc_pool).filter_id,
                Head(rpc_pool).bloom_filter.always_true, closed_, FALSE, FALSE,
                "none", SendStatus(conn_ok, rpc_ok), FALSE)
  /\ UNCHANGED <<config, waiting, catalog, closed_, registries, filters, blooms, memory, calls,
               aborted>>

SendFilterToCoordinator(conn_ok, rpc_ok) ==
  /\ Running
  /\ rpc_pool # <<>>
  /\ rpc_pool' = Tail(rpc_pool)
  /\ last' = Ev("Send", Head(rpc_pool).filter_id,
                Head(rpc_pool).bloom_filter.always_true, closed_, FALSE, FALSE,
                "none", SendStatus(conn_ok, rpc_ok), FALSE)
  /\ UNCHANGED <<config, waiting, catalog, closed_, registries, filters, blooms, memory, calls,
               aborted>>

Next ==
  \/ \E id \in FilterIds, is_producer \in BOOLEAN : RegisterFilter(id, is_producer)
  \/ AllocateScratchBloomFilter
  \/ Close
  \/ \E id \in FilterIds, tf \in WireFilters : PublishGlobalFilter(id, tf)
  \/ \E id \in FilterIds, bf \in ProducerFilters : UpdateFilterFromLocal(id, bf)
  \/ \E id \in FilterIds : UpdateLookupConsumer(id)
  \/ \E id \in FilterIds : UpdateInstallLocal(id)
  \/ \E id \in FilterIds : UpdateSend(id)
  \/ \E conn_ok \in BOOLEAN, rpc_ok \in BOOLEAN : SendFilterToCoordinator(conn_ok, rpc_ok)

Spec == Init /\ [][Next]_vars

\* ------------------------------------------- RuntimeFilter::WaitForArrival
\* The consumer thread polls its RuntimeFilter without taking the bank's
\* lock.  A step reads the clock and the filter at one instant; the thread
\* wakes from SleepForMs when the period is over, and the clock does not run
\* past the wake-up time of a thread that is due.
bank == <<config, closed_, registries, filters, blooms, memory, calls, rpc_pool,
          aborted, last>>

\* a wait that measures its deadline from the call
WaitElapsed_sincecall(o) == now - wait.call_time

\* line 355: MonotonicMillis() - registration_time_
WaitElapsed(o) == now - filters[o].registration_time_

\* a wait that sleeps two periods between polls
WaitWakeTime_double == now + 2 * SLEEP_PERIOD_MS

\* line 354: SleepForMs(SLEEP_PERIOD_MS) ends at
WaitWakeTime == now + SLEEP_PERIOD_MS

\* lines 352-354: the call and the first pass of the loop up to the sleep
WaitForArrival(o, timeout_ms) ==
  LET call == [pc |-> "sleep", filter |-> o, timeout_ms |-> timeout_ms,
               call_time |-> now, sleeps |-> 0, wake |-> WaitWakeTime, ret |-> FALSE]
  IN
  /\ Running
  /\ wait.pc \in {"idle", "done"}
  \* the model follows no call past MaxTime
  /\ Max(now, filters[o].registration_time_ + timeout_ms) + SLEEP_PERIOD_MS <= MaxTime
  /\ wait' = IF HasBloomFilter(o)
             THEN [call EXCEPT !.pc = "done", !.wake = now, !.ret = TRUE]
             ELSE call
  /\ UNCHANGED <<bank, catalog, now>>

\* a wait that polls once, sleeps once and looks again
WaitLoops_once(o, timeout_ms) == FALSE

\* line 355: the while condition of the do loop
WaitLoops(o, timeout_ms) == WaitElapsed(o) < timeout_ms

\* lines 354-357: the sleep is over; the loop test, then either the next
\* pass up to its sleep or the final return
WaitWake ==
  LET o == wait.filter
      woken == [wait EXCEPT !.sleeps = @ + 1]
  IN
  /\ Running
  /\ wait.pc = "sleep"
  /\ now >= wait.wake
  /\ wait' = IF WaitLoops(o, wait.timeout_ms)
             THEN IF HasBloomFilter(o)
                  THEN [woken EXCEPT !.pc = "done", !.ret = TRUE]
                  ELSE [woken EXCEPT !.wake = WaitWakeTime]
             ELSE [woken EXCEPT !.pc = "done", !.ret = HasBloomFilter(o)]
  /\ UNCHANGED <<bank, catalog, now>>

\* the monotonic clock advances
ClockAdvance(d) ==
  /\ Running
  /\ now + d <= MaxTime
  /\ wait.pc = "sleep" => now + d <= wait.wake
  /\ now' = now + d
  /\ UNCHANGED <<bank, catalog, wait>>

\* a bank in GLOBAL mode whose plan has one filter without local target
InitWait ==
  /\ Init
  /\ runtime_filter_mode = "GLOBAL"
  /\ \A i \in FilterIds : ~filter_descs[i].has_local_target

\* the consumer side: the plan's consumers register once, the coordinator
\* publishes, the consumer thread waits
NextWait ==
  \/ \E id \in FilterIds : consumed_filters_[id] = NULL /\ RegisterFilter(id, FALSE)
  \/ \E id \in FilterIds, tf \in WireFilters : PublishGlobalFilter(id, tf)
  \/ \E o \in 1..Len(filters), timeout_ms \in Timeouts : WaitForArrival(o, timeout_ms)
  \/ WaitWake
  \/ \E d \in ClockSteps : ClockAdvance(d)

\* the clock advances and the waiting thread is scheduled
SpecWait ==
  /\ InitWait
  /\ [][NextWait]_vars
  /\ WF_vars(\E d \in ClockSteps : ClockAdvance(d))
  /\ WF_vars(WaitWake)

\* ------------------------------------------------- the constructor's clamp
\* runtime_bloom_filter_size values a query can ask for: none, negative,
\* below, at and above the two limits, powers of two and their neighbours
CtorSizes ==
  {-2147483647, -1, 0, 4095, 4096, 4097, 8192, 8193, 100000,
   16777215, 16777216, 16777217, 2147483647}

\* a bank built by a DCHECK build for a GLOBAL-mode query whose filter has
\* no local target, with any of the sizes asked for
InitCtor ==
  /\ dcheck_on = TRUE
  /\ runtime_filter_mode = "GLOBAL"
  /\ runtime_bloom_filter_size \in CtorSizes
  /\ log_filter_size_ = LogFilterSize(runtime_bloom_filter_size)
  /\ filter_descs = [i \in FilterIds |-> [has_local_target |-> FALSE]]
  /\ closed_ = FALSE
  /\ produced_filters_ = [i \in FilterIds |-> NULL]
  /\ consumed_filters_ = [i \in FilterIds |-> NULL]
  /\ filters = <<>>
  /\ blooms = <<>>
  /\ memory_allocated_ = 0
  /\ consumption = 0
  /\ calls = [i \in FilterIds |-> Idle]
  /\ rpc_pool = <<>>
  /\ aborted = FALSE
  /\ now = 0
  /\ wait = NoWait
  /\ kuduTable = NewKuduTable(NULL)
  /\ lastLoad = NoLoad
  /\ last = Ev("Init", 0, FALSE, FALSE, FALSE, FALSE, "none", 0, FALSE)

\* the operations such a bank sees
NextCtor ==
  \/ \E id \in FilterIds, is_producer \in BOOLEAN : RegisterFilter(id, is_producer)
  \/ AllocateScratchBloomFilter
  \/ Close
  \/ \E id \in FilterIds, tf \in WireFilters : PublishGlobalFilter(id, tf)
  \/ \E id \in FilterIds, bf \in ProducerFilters : UpdateFilterFromLocal(id, bf)
  \/ \E id \in FilterIds : UpdateSend(id)
  \/ \E conn_ok \in BOOLEAN, rpc_ok \in BOOLEAN : SendFilterToCoordinator(conn_ok, rpc_ok)

SpecCtor == InitCtor /\ [][NextCtor]_vars

\* ======================================================================
\* KuduTable.load
\* ======================================================================
KEY_TABLE_NAME == "kudu.table_name"
KEY_KEY_COLUMNS == "kudu.key_columns"
KEY_MASTER_ADDRESSES == "kudu.master_addresses"
TableParamKeys == {KEY_TABLE_NAME, KEY_KEY_COLUMNS, KEY_MASTER_ADDRESSES}

\* Map.get(key): null when the map has no entry for the key
MapGet(params, key) == IF key \in DOMAIN params THEN Ref(params[key]) ELSE null

\* the parameter map of a metastore table: an entry for every property given
TableParams(table_name, master_addresses, key_columns) ==
  LET given == [k \in TableParamKeys |->
                  IF k = KEY_TABLE_NAME THEN table_name
                  ELSE IF k = KEY_MASTER_ADDRESSES THEN master_addresses
                  ELSE key_columns]
  IN [k \in {x \in TableParamKeys : given[x] # null} |-> Deref(given[k])]

\* String.toLowerCase() over the characters that occur
LowerCaseChar(c) ==
  CASE c = "A" -> "a"
    [] c = "B" -> "b"
    [] c = "C" -> "c"
    [] OTHER -> c
toLowerCase(str) == [i \in 1..Len(str) |-> LowerCaseChar(str[i])]

\* KuduUtil.parseKeyColumns: the names between the commas, as a set
RECURSIVE SplitOnComma(_, _)
SplitOnComma(str, name) ==
  IF str = <<>> THEN {name}
  ELSE IF Head(str) = "," THEN {name} \cup SplitOnComma(Tail(str), <<>>)
  ELSE SplitOnComma(Tail(str), Append(name, Head(str)))
parseKeyColumns(cols) == SplitOnComma(cols, <<>>)

\* a check of the properties that passes without key columns
tableParamsAreValid_nokeys(params) ==
  /\ MapGet(params, KEY_TABLE_NAME) # null
  /\ Len(Deref(MapGet(params, KEY_TABLE_NAME))) > 0
  /\ MapGet(params, KEY_MASTER_ADDRESSES) # null
  /\ Len(Deref(MapGet(params, KEY_MASTER_ADDRESSES))) > 0

\* lines 225-231
tableParamsAreValid(params) ==
  /\ MapGet(params, KEY_TABLE_NAME) # null
  /\ Len(Deref(MapGet(params, KEY_TABLE_NAME))) > 0
  /\ MapGet(params, KEY_MASTER_ADDRESSES) # null
  /\ Len(Deref(MapGet(params, KEY_MASTER_ADDRESSES))) > 0
  /\ MapGet(params, KEY_KEY_COLUMNS) # null
  /\ Len(Deref(MapGet(params, KEY_KEY_COLUMNS))) > 0

\* new KuduColumn(name, isKey, isNullable, type, comment, pos)
KuduColumn(name, isKey, isNullable, pos) ==
  [name |-> name, isKey |-> isKey, isNullable |-> isNullable, pos |-> pos]

\* Table.addColumn: the column joins the table's columns
addColumn(cols, col) == Append(cols, col)

\* lines 150-160: the loop over the schema, from field pos on
RECURSIVE loadColumnsLoop(_, _, _, _)
loadColumnsLoop(schema, keyColumns, cols, pos) ==
  IF pos >= Len(schema) THEN cols
  ELSE LET field == schema[pos + 1]
           isKey == field.name \in keyColumns
           col == KuduColumn(field.name, isKey, ~isKey, pos)
       IN loadColumnsLoop(schema, keyColumns, addColumn(cols, col), pos + 1)

\* lines 140-171: what the table's columns and key column names are after
\* the call, and how the call ended
loadColumns(schema, keyColumns, table) ==
  IF Cardinality(keyColumns) = 0 \/ Cardinality(keyColumns) > Len(schema)
  THEN [table |-> table, thrown |-> "TableLoadingException", line |-> 144]
  ELSE LET columnNames == {schema[i].name : i \in 1..Len(schema)}
           added == [table EXCEPT
                       !.columns = loadColumnsLoop(schema, keyColumns, @, 0)]
       IN IF ~(keyColumns \subseteq columnNames)
          THEN [table |-> added, thrown |-> "TableLoadingException", line |-> 163]
          ELSE [table |-> [added EXCEPT !.kuduKeyColumnNames_ = Ref(keyColumns)],
                thrown |-> "none", line |-> 171]

\* ---- the metastore tables load is handed ----
TableName == <<"t">>
Masters == <<"m">>
FieldSchema(name) == [name |-> name]
SchemaA == <<FieldSchema(<<"a">>)>>
SchemaAB == <<FieldSchema(<<"a">>), FieldSchema(<<"b">>)>>
MsTable(parameters, cols) == [parameters |-> parameters, cols |-> cols]

MetaStoreTables ==
  << MsTable(null, SchemaA),
     MsTable(Ref(TableParams(null, Ref(Masters), Ref(<<"a">>))), SchemaA),
     MsTable(Ref(TableParams(Ref(<<>>), Ref(Masters), Ref(<<"a">>))), SchemaA),
     MsTable(Ref(TableParams(Ref(TableName), null, Ref(<<"a">>))), SchemaA),
     MsTable(Ref(TableParams(Ref(TableName), Ref(<<>>), Ref(<<"a">>))), SchemaA),
     MsTable(Ref(TableParams(Ref(TableName), Ref(Masters), null)), SchemaAB),
     MsTable(Ref(TableParams(Ref(TableName), Ref(Masters), Ref(<<>>))), SchemaAB),
     MsTable(Ref(TableParams(Ref(TableName), Ref(Masters), Ref(<<"a">>))), SchemaAB),
     MsTable(Ref(TableParams(Ref(TableName), Ref(Masters), Ref(<<"B">>))), SchemaAB),
     MsTable(Ref(TableParams(Ref(TableName), Ref(Masters), Ref(<<"a", ",", "b">>))), SchemaAB),
     MsTable(Ref(TableParams(Ref(TableName), Ref(Masters), Ref(<<"a", ",", "b">>))), SchemaA),
     MsTable(Ref(TableParams(Ref(TableName), Ref(Masters), Ref(<<"a", ",", "c">>))), SchemaAB),
     MsTable(Ref(TableParams(Ref(TableName), Ref(Masters), Ref(<<"a", ",">>))), SchemaAB),
     MsTable(Ref(TableParams(Ref(<<"u">>), Ref(Masters), Ref(<<"A">>))), SchemaA) >>
MsTableRefs == DOMAIN MetaStoreTables

\* lines 174-197: load(reuseMetadata, client, msTbl); m is the address of
\* msTbl.  reuseMetadata is not read (line 176).  numRows_ (line 196) is a
\* statistic and not carried.
load(m) ==
  LET msTbl == MetaStoreTables[m]
      corrupt == [msTbl |-> m, thrown |-> "TableLoadingException", line |-> 178]
  IN
  /\ Len(kuduTable.columns) + Len(msTbl.cols) <= MaxColumns
  /\ IF kuduTable.msTable_ = NULL
     THEN /\ lastLoad' = corrupt
          /\ UNCHANGED kuduTable
     ELSE IF msTbl.parameters = null
     THEN \* params.get on no map, inside tableParamsAreValid
          /\ lastLoad' = [msTbl |-> m, thrown |-> "NullPointerException", line |-> 226]
          /\ UNCHANGED kuduTable
     ELSE LET params == Deref(msTbl.parameters) IN
       IF ~tableParamsAreValid(params)
       THEN /\ lastLoad' = corrupt
            /\ UNCHANGED kuduTable
       ELSE LET named == [kuduTable EXCEPT
                            !.msTable_ = m,
                            !.kuduTableName_ = MapGet(params, KEY_TABLE_NAME),
                            !.kuduMasters_ = MapGet(params, KEY_MASTER_ADDRESSES)]
            IN
         IF MapGet(params, KEY_KEY_COLUMNS) = null
         THEN \* toLowerCase on null
              /\ lastLoad' = [msTbl |-> m, thrown |-> "NullPointerException", line |-> 186]
              /\ kuduTable' = named
         ELSE LET keyColumnsProp == toLowerCase(Deref(MapGet(params, KEY_KEY_COLUMNS)))
                  keyColumns == parseKeyColumns(keyColumnsProp)
                  loaded == loadColumns(msTbl.cols, keyColumns, named)
              IN /\ lastLoad' = [msTbl |-> m, thrown |-> loaded.thrown, line |-> loaded.line]
                 /\ kuduTable' = IF loaded.thrown = "none"
                                 THEN [loaded.table EXCEPT !.numClusteringCols_ = 0]
                                 ELSE loaded.table
  /\ UNCHANGED <<bank, waiting>>

\* a table object as Table.fromMetastoreTable or a test builds it, with or
\* without a metastore table; no query runs
InitKudu ==
  /\ dcheck_on = TRUE
  /\ runtime_filter_mode = "GLOBAL"
  /\ runtime_bloom_filter_size = 0
  /\ log_filter_size_ = LogFilterSize(runtime_bloom_filter_size)
  /\ filter_descs = [i \in FilterIds |-> [has_local_target |-> FALSE]]
  /\ closed_ = FALSE
  /\ produced_filters_ = [i \in FilterIds |-> NULL]
  /\ consumed_filters_ = [i \in FilterIds |-> NULL]
  /\ filters = <<>>
  /\ blooms = <<>>
  /\ memory_allocated_ = 0
  /\ consumption = 0
  /\ calls = [i \in FilterIds |-> Idle]
  /\ rpc_pool = <<>>
  /\ aborted = FALSE
  /\ now = 0
  /\ wait = NoWait
  /\ kuduTable \in {NewKuduTable(msTable) : msTable \in {NULL} \cup MsTableRefs}
  /\ lastLoad = NoLoad
  /\ last = Ev("Init", 0, FALSE, FALSE, FALSE, FALSE, "none", 0, FALSE)

NextKudu == \E m \in MsTableRefs : load(m)

SpecKudu == InitKudu /\ [][NextKudu]_vars

\* ======================================================================
\* Claims
\* ======================================================================

\* the operations of the bank that take runtime_filter_lock_ (for
\* UpdateFilterFromLocal, its two critical sections)
LockedOps ==
  {"RegisterProducer", "RegisterConsumer", "UpdateInstall", "UpdateLookup",
   "Publish", "Allocate"}

\* the step just taken was a PublishGlobalFilter on an open bank
PublishedOpen == last.op = "Publish" /\ ~last.closed

\* C1: under every interleaving, a RuntimeFilter that has a bloom filter
\* installed keeps exactly that reference: no later or concurrent operation
\* installs into it again or replaces it.
C1_InstalledAtMostOnce ==
  [][\A o \in 1..Len(filters) :
       HasBloomFilter(o) => filters'[o].bloom_filter = filters[o].bloom_filter]_vars

\* C2: the bytes the bank holds against the query memory tracker never
\* exceed the heap size of the BloomFilters its pool owns.
C2_ChargedWithinPool == consumption <= PoolHeapBytes

\* C2 witness: Close() has run on a bank whose consumer held a published
\* BloomFilter, and the charge is back within the (now empty) pool.
C2_Witness ==
  /\ last.op = "Close"
  /\ ~last.closed
  /\ memory_allocated_ > 0
  /\ consumption = 0
  /\ PoolHeapBytes = 0
  /\ \E i \in FilterIds :
       /\ consumed_filters_[i] # NULL
       /\ filters[consumed_filters_[i]].bloom_filter \in 1..Len(blooms)

\* C3: once Close() has run, the bank's charge on the memory tracker is zero
\* and stays zero whatever is invoked afterwards.
C3_BaselineAfterClose == closed_ => consumption = 0

\* C4: a Close() that follows a Close() changes nothing: not the bank, not
\* the memory tracker.
C4_CloseIdempotent ==
  [][(last.op = "Close" /\ last'.op = "Close")
       => UNCHANGED <<closed_, registries, filters, blooms, memory>>]_vars

\* C5: an operation that takes the lock and finds the bank closed changes
\* no registry, installs nothing, allocates nothing and leaves the budget.
C5_ClosedIsNoop ==
  [][(last'.op \in LockedOps /\ last'.closed)
       => UNCHANGED <<registries, filters, blooms, memory>>]_vars

\* C6: PublishGlobalFilter on a closed bank installs nothing, issues no
\* TryConsume and leaves the byte counter, the tracker and the pool alone.
C6_PublishOnClosedNoop ==
  [][(last'.op = "Publish" /\ last'.closed)
       => /\ last'.try_consume = "none"
          /\ UNCHANGED <<registries, filters, blooms, memory, calls, rpc_pool, aborted>>]_vars

\* C6 witness: a real (not always-true) wire filter was published for a
\* registered consumer after Close().
C6_Witness ==
  /\ last.op = "Publish"
  /\ last.closed
  /\ last.registered
  /\ ~last.always_true

\* C7: a repeat PublishGlobalFilter for a consumer that has already arrived
\* is ignored: the reference, the charge, the counter and the pool stay.
C7_RepeatPublishIgnored ==
  [][(last'.op = "Publish" /\ ~last'.closed /\ last'.arrived)
       => /\ UNCHANGED <<filters, blooms, memory>>
          /\ ~aborted']_vars

\* C8: when the tracker rejects the reservation for a published filter that
\* is not always-true, nothing is charged or allocated, and the consumer
\* (registered, not arrived before) ends up with ALWAYS_TRUE installed and
\* no error.
C8_RejectedPublishDegrades ==
  [][(last'.op = "Publish" /\ ~last'.closed /\ ~last'.always_true
        /\ last'.try_consume = "rejected")
       => /\ UNCHANGED <<blooms, memory, registries>>
          /\ (last'.registered /\ ~last'.arrived)
               => /\ filters'[consumed_filters_[last'.id]].bloom_filter
                       = ALWAYS_TRUE_FILTER
                  /\ ~aborted']_vars

\* C8 witness: the budget was in use, the reservation was rejected and the
\* consumer now holds ALWAYS_TRUE.
C8_Witness ==
  /\ PublishedOpen
  /\ ~last.always_true
  /\ last.try_consume = "rejected"
  /\ last.registered /\ ~last.arrived
  /\ consumption > 0
  /\ filters[consumed_filters_[last.id]].bloom_filter = ALWAYS_TRUE_FILTER
  /\ ~aborted

\* C9: an always-true wire filter published on an open bank never reaches
\* TryConsume, allocates nothing and leaves counter and tracker alone,
\* whatever its log size; the consumer (registered, not arrived before) ends
\* up with ALWAYS_TRUE installed.
C9_AlwaysTruePublishIsFree ==
  [][(last'.op = "Publish" /\ ~last'.closed /\ last'.always_true)
       => /\ last'.try_consume = "none"
          /\ UNCHANGED <<blooms, memory, registries>>
          /\ (last'.registered /\ ~last'.arrived)
               => /\ filters'[consumed_filters_[last'.id]].bloom_filter
                       = ALWAYS_TRUE_FILTER
                  /\ ~aborted']_vars

\* C9 witness: an always-true filter was installed on a bank that holds
\* budget bytes.
C9_Witness ==
  /\ PublishedOpen
  /\ last.always_true
  /\ last.registered /\ ~last.arrived
  /\ consumption > 0
  /\ filters[consumed_filters_[last.id]].bloom_filter = ALWAYS_TRUE_FILTER
  /\ ~aborted

\* C10: AllocateScratchBloomFilter on an open bank either charges exactly
\* GetExpectedHeapSpaceUsed(log_filter_size_), adds as much to the counter
\* and returns a new filter of the pool, or returns none and changes
\* nothing; it reports no error.
C10_AllocateAllOrNothing ==
  [][(last'.op = "Allocate" /\ ~last'.closed)
       => /\ ~aborted'
          /\ UNCHANGED <<registries, filters>>
          /\ \/ /\ last'.try_consume = "ok"
                /\ consumption' =
                     consumption + GetExpectedHeapSpaceUsed(log_filter_size_)
                /\ memory_allocated_' =
                     memory_allocated_ + GetExpectedHeapSpaceUsed(log_filter_size_)
                /\ last'.ret = Len(blooms) + 1
                /\ blooms' = Append(blooms, blooms'[last'.ret])
                /\ blooms'[last'.ret].live
                /\ blooms'[last'.ret].log_heap_space = log_filter_size_
             \/ /\ last'.try_consume = "rejected"
                /\ last'.ret = NULL
                /\ UNCHANGED <<blooms, memory>>]_vars

\* C10 witness: an allocation was turned down because the budget is used up
\* by the filters allocated before.
C10_Witness ==
  /\ last.op = "Allocate"
  /\ ~last.closed
  /\ last.try_consume = "rejected"
  /\ consumption > 0
  /\ consumption + AllocateRequiredSpace > MemLimit
  /\ ~aborted

\* C11: UpdateFilterFromLocal(id, f) on a produced filter that has a local
\* target, with a consumer registered under the same id, goes through the
\* consumed lookup to the local install and returns with both RuntimeFilters
\* referencing f itself; no step of it allocates, charges the budget or
\* hands anything to the rpc pool.
C11_LocalTargetShares ==
  [][/\ (/\ last'.op = "UpdateInstall"
         /\ last'.registered
         /\ ~aborted'
         /\ filters[produced_filters_[last'.id]].has_local_target)
          => /\ calls'[last'.id].pc = "lookup"
             /\ filters'[produced_filters_[last'.id]].bloom_filter
                  = calls'[last'.id].bloom_filter
             /\ UNCHANGED <<blooms, memory, rpc_pool>>
     /\ (last'.op = "UpdateLookup" /\ last'.registered /\ ~aborted')
          => /\ calls'[last'.id].pc = "install"
             /\ calls'[last'.id].filter = consumed_filters_[last'.id]
             /\ UNCHANGED <<filters, blooms, memory, rpc_pool>>
     /\ (/\ last'.op = "UpdateLocalInstall"
         /\ ~aborted'
         /\ calls[last'.id].produced # NULL)
          => /\ filters'[calls[last'.id].produced].bloom_filter
                  = calls[last'.id].bloom_filter
             /\ filters'[calls[last'.id].filter].bloom_filter
                  = calls[last'.id].bloom_filter
             /\ calls[last'.id].filter # calls[last'.id].produced
             /\ calls'[last'.id] = Idle
             /\ UNCHANGED <<blooms, memory, rpc_pool>>]_vars

\* C11 witness: the call has returned from the local install, and producer
\* and consumer of the id reference the same live scratch filter of the
\* pool, the only filter ever charged; the rpc pool is empty.
C11_Witness ==
  /\ last.op = "UpdateLocalInstall"
  /\ ~last.always_true /\ ~last.uaf
  /\ ~aborted
  /\ rpc_pool = <<>>
  /\ produced_filters_[last.id] # NULL
  /\ consumed_filters_[last.id] # NULL
  /\ produced_filters_[last.id] # consumed_filters_[last.id]
  /\ LET b == filters[produced_filters_[last.id]].bloom_filter
     IN /\ b \in 1..Len(blooms)
        /\ filters[consumed_filters_[last.id]].bloom_filter = b
        /\ blooms[b].live /\ blooms[b].scratch
        /\ Len(blooms) = 1
        /\ memory_allocated_ = GetHeapSpaceUsed(blooms[b])
        /\ consumption = memory_allocated_

\* C12: for a produced filter without local target, UpdateFilterFromLocal
\* in GLOBAL mode offers exactly one send task for its filter id to the rpc
\* pool and returns with the task still queued; in any other mode it returns
\* with nothing offered.  Nothing else ever adds to the rpc pool.
C12_OneSendTaskOffered ==
  [][/\ (/\ last'.op = "UpdateInstall"
         /\ last'.registered
         /\ ~aborted'
         /\ ~filters[produced_filters_[last'.id]].has_local_target)
          => /\ rpc_pool' = rpc_pool
             /\ calls'[last'.id].pc =
                  IF runtime_filter_mode = "GLOBAL" THEN "send" ELSE "idle"
     /\ (last'.op = "UpdateSend" /\ ~aborted')
          => /\ runtime_filter_mode = "GLOBAL"
             /\ rpc_pool' = Append(rpc_pool,
                              [filter_id |-> last'.id,
                               bloom_filter |-> ToThrift(calls[last'.id].bloom_filter)])
             /\ calls'[last'.id] = Idle
             /\ UNCHANGED <<registries, filters, blooms, memory>>
     /\ Len(rpc_pool') > Len(rpc_pool) => last'.op = "UpdateSend"]_vars

\* C12 witness: the call has returned (its producer is idle again) and the
\* task for its scratch filter sits in the rpc pool, not yet started.
C12_Witness ==
  /\ last.op = "UpdateSend"
  /\ ~aborted
  /\ runtime_filter_mode = "GLOBAL"
  /\ calls[last.id] = Idle
  /\ Len(rpc_pool) = 1
  /\ rpc_pool[1].filter_id = last.id
  /\ ~rpc_pool[1].bloom_filter.always_true
  /\ produced_filters_[last.id] # NULL
  /\ filters[produced_filters_[last.id]].bloom_filter \in 1..Len(blooms)

\* C13: a send task runs once, whether the connection fails to open, the
\* RPC fails or the filter is delivered: it leaves the rpc pool, is not
\* queued again, changes nothing of the bank and raises no error.
C13_FailedSendDropped ==
  [][last'.op = "Send"
       => /\ rpc_pool # <<>>
          /\ rpc_pool' = Tail(rpc_pool)
          /\ last'.id = Head(rpc_pool).filter_id
          /\ UNCHANGED <<closed_, registries, filters, blooms, memory, calls, aborted>>]_vars

\* C13 witness: the RPC of the only task failed; the task is gone, the
\* process lives and the producer's filter is still in place.
C13_Witness ==
  /\ last.op = "Send"
  /\ last.ret = 1
  /\ rpc_pool = <<>>
  /\ ~aborted
  /\ calls[last.id] = Idle
  /\ produced_filters_[last.id] # NULL
  /\ HasBloomFilter(produced_filters_[last.id])

\* C14: a WaitForArrival call on a filter that has arrived returns true at
\* once, without a sleep and without the clock moving; and a poll that finds
\* the time since registration at or past timeout_ms and no filter installed
\* returns false, whenever the call started, after the deadline included.
C14_WaitResult ==
  [][/\ (/\ wait.pc \in {"idle", "done"}
         /\ wait' # wait
         /\ HasBloomFilter(wait'.filter))
          => /\ wait'.pc = "done"
             /\ wait'.ret
             /\ wait'.sleeps = 0
             /\ now' = now
     /\ (/\ wait.pc = "sleep"
         /\ wait' # wait
         /\ now - filters[wait.filter].registration_time_ >= wait.timeout_ms
         /\ ~HasBloomFilter(wait.filter))
          => /\ wait'.pc = "done"
             /\ ~wait'.ret]_vars

\* C14 witness: a call that started after the deadline of a filter that
\* never arrived has returned false after its one sleep.
C14_Witness ==
  /\ wait.pc = "done"
  /\ ~wait.ret
  /\ wait.timeout_ms > 0
  /\ wait.call_time > filters[wait.filter].registration_time_ + wait.timeout_ms
  /\ wait.sleeps = 1
  /\ now = wait.call_time + SLEEP_PERIOD_MS
  /\ ~HasBloomFilter(wait.filter)

RegisterOps == {"RegisterProducer", "RegisterConsumer"}

\* C16: RegisterFilter never overwrites a registry entry: registering an id
\* that its registry already holds kills the process and leaves both
\* registries as they were; registering an id its registry does not hold
\* enters a new RuntimeFilter without bloom filter there and leaves the
\* other registry alone.
C16_RegisterNeverOverwrites ==
  [][/\ (last'.op \in RegisterOps /\ last'.registered)
          => /\ aborted'
             /\ UNCHANGED registries
     /\ (last'.op \in RegisterOps /\ ~last'.registered)
          => /\ ~aborted'
             /\ last'.ret = Len(filters) + 1
             /\ filters'[last'.ret].bloom_filter = NULL
             /\ IF last'.op = "RegisterProducer"
                THEN /\ produced_filters_'[last'.id] = last'.ret
                     /\ UNCHANGED consumed_filters_
                ELSE /\ consumed_filters_'[last'.id] = last'.ret
                     /\ UNCHANGED produced_filters_]_vars

\* C17: a lookup that finds no entry for the filter id (the produced lookup
\* and the consumed lookup of UpdateFilterFromLocal, the consumed lookup of
\* PublishGlobalFilter on an open bank) kills the process.
C17_UnregisteredLookupFatal ==
  [][(/\ ~last'.registered
      /\ \/ last'.op \in {"UpdateInstall", "UpdateLookup"}
         \/ last'.op = "Publish" /\ ~last'.closed)
       => aborted']_vars

\* the steps that run inside a lock_guard scope of runtime_filter_lock_
HoldsLockOps == LockedOps \cup {"Close"}

C19_LogFilterSizeClamped ==
  /\ [](LET clamped == Min(Max(runtime_bloom_filter_size, MIN_BLOOM_FILTER_SIZE),
                           MAX_BLOOM_FILTER_SIZE)
        IN /\ log_filter_size_ >= 0
           /\ Pow2(log_filter_size_) >= MIN_BLOOM_FILTER_SIZE
           /\ Pow2(log_filter_size_) <= MAX_BLOOM_FILTER_SIZE
           /\ Pow2(log_filter_size_) >= clamped
           /\ Pow2(log_filter_size_ - 1) < clamped)
  /\ [][UNCHANGED <<runtime_bloom_filter_size, log_filter_size_>>]_vars

\* C19 witness: a bank asked for more than the maximum has handled an
\* allocation request with the maximum size, 2^24 bytes.
C19_Witness ==
  /\ runtime_bloom_filter_size > MAX_BLOOM_FILTER_SIZE
  /\ log_filter_size_ = 24
  /\ last.op = "Allocate"
  /\ ~last.closed
  /\ AllocateRequiredSpace = MAX_BLOOM_FILTER_SIZE

\* C20: no step of the bank touches a RuntimeFilter or a pool-owned
\* BloomFilter that Close() has freed.
C20_NoUseAfterClose == ~last.uaf

\* C21: a WaitForArrival call that returns true returns with the filter
\* installed, and the filter stays installed afterwards; a call that returns
\* false found no filter at that moment and the time since registration had
\* reached timeout_ms; so a return before the deadline is a return of true.
C21_WaitSound ==
  /\ []((wait.pc = "done" /\ wait.ret) => HasBloomFilter(wait.filter))
  /\ [][(wait'.pc = "done" /\ wait' # wait)
          => /\ wait'.ret = HasBloomFilter(wait'.filter)
             /\ ~wait'.ret
                  => now' - filters'[wait'.filter].registration_time_
                       >= wait'.timeout_ms
             /\ now' - filters'[wait'.filter].registration_time_ < wait'.timeout_ms
                  => /\ wait'.ret
                     /\ filters'[wait'.filter].bloom_filter # NULL]_vars

\* C21 witness: a call that slept has returned true before the deadline,
\* the filter having been published while it slept.
C21_Witness ==
  /\ wait.pc = "done"
  /\ wait.ret
  /\ wait.sleeps >= 1
  /\ now - filters[wait.filter].registration_time_ < wait.timeout_ms
  /\ HasBloomFilter(wait.filter)
  /\ last.op = "Publish"
  /\ ~aborted

\* the case of line 177 for a load of metastore table m by the table object
\* t: t has no metastore table, or one of the three Kudu properties of m is
\* missing or empty
CorruptLoad(t, m) ==
  \/ t.msTable_ = NULL
  \/ /\ MetaStoreTables[m].parameters # null
     /\ LET params == Deref(MetaStoreTables[m].parameters)
        IN \E k \in TableParamKeys :
             MapGet(params, k) = null \/ Len(Deref(MapGet(params, k))) = 0

\* C22: a load of a table object without metastore table, or with a Kudu
\* property (table name, master addresses, key columns) missing or empty,
\* throws TableLoadingException and leaves msTable_, kuduTableName_,
\* kuduMasters_, kuduKeyColumnNames_ and the columns as they were.
C22_CorruptLoadRejected ==
  [][\A m \in MsTableRefs :
       (lastLoad'.msTbl = m /\ CorruptLoad(kuduTable, m))
         => /\ lastLoad'.thrown = "TableLoadingException"
            /\ lastLoad'.line = 178
            /\ kuduTable' = kuduTable]_vars

\* a table that was loaded with columns and then refused corrupt properties
C22_Witness ==
  /\ lastLoad.msTbl # NULL
  /\ lastLoad.thrown = "TableLoadingException"
  /\ lastLoad.line = 178
  /\ kuduTable.msTable_ # NULL
  /\ kuduTable.msTable_ # lastLoad.msTbl
  /\ kuduTable.kuduKeyColumnNames_ # null
  /\ Len(kuduTable.columns) > 0
  /\ MapGet(Deref(MetaStoreTables[lastLoad.msTbl].parameters), KEY_KEY_COLUMNS) = null

\* C23: when load has completed without throwing, the key column names are
\* a non-empty set no larger than the number of the table's columns, every
\* key column name is the name of a column of the table, and a column of the
\* table is a key exactly when its name is in the set and nullable exactly
\* when it is not.
C23_KeyColumnsMatchColumns ==
  (lastLoad.msTbl # NULL /\ lastLoad.thrown = "none")
    => /\ kuduTable.kuduKeyColumnNames_ # null
       /\ LET keys == Deref(kuduTable.kuduKeyColumnNames_)
              cols == kuduTable.columns
          IN /\ keys # {}
             /\ Cardinality(keys) <= Len(cols)
             /\ \A k \in keys : \E i \in 1..Len(cols) : cols[i].name = k
             /\ \A i \in 1..Len(cols) :
                  /\ cols[i].isKey <=> cols[i].name \in keys
                  /\ cols[i].isNullable <=> cols[i].name \notin keys
====
